---- MODULE Spec2Model ----
(***************************************************************************)
(* Santa Scramble: the simulation engine (src/game/GameEngine.ts), its     *)
(* frame loop, and the host callbacks of App / GameCanvas.                  *)
(*                                                                         *)
(* Numbers.  The engine computes in IEEE doubles.  Here a length is an     *)
(* integer number of hundredths of a world unit (Fixed(1) = 100), a        *)
(* velocity is in world units per second and a time step is in             *)
(* milliseconds, so that position += velocity * dt is exact for every time *)
(* step that is a multiple of 10 ms.                                       *)
(***************************************************************************)
EXTENDS Integers, Sequences, FiniteSets

(***************************************************************************)
(* Constants of src/constants (imported at GameEngine.ts:5-8).  That file  *)
(* is not among the sources: TILE_SIZE and the world's size are read off   *)
(* GameEngine.ts:370 and the 25 x 15 template; the five values of the      *)
(* physics are chosen here, in world units per second (per second squared  *)
(* for GRAVITY).                                                           *)
(***************************************************************************)
TILE_SIZE == 16
WORLD_WIDTH == 25
WORLD_HEIGHT == 15
GRAVITY == 800
JUMP_FORCE == 300
MOVE_SPEED == 100
CLIMB_SPEED == 60
ENEMY_SPEED == 50
\* useState(1440): the high score the HUD starts with.
InitialHighScore == 1440

(***************************************************************************)
(* Bounds of the model.                                                    *)
(***************************************************************************)
\* Math.random() returns one of k / RandSteps, k in 0 .. RandSteps - 1.
RandSteps == 3
\* Successive calls of Math.random() walk a cyclic stream of this length.
StreamLen == 3
\* Simulation steps (calls of update) in one behaviour.
MaxFrames == 2
\* Calls of reset() in one behaviour.
MaxResets == 1

Fixed(u) == u * 100

Abs(n) == IF n < 0 THEN -n ELSE n
Sign(n) == IF n > 0 THEN 1 ELSE IF n < 0 THEN -1 ELSE 0
\* A minimum that is its first argument.
Min_first(a, b) == a

Min(a, b) == IF a < b THEN a ELSE b

\* The sequence s as an explicit tuple of its elements.
AsArray(s) == SelectSeq(s, LAMBDA e : TRUE)

Reverse(s) == AsArray([i \in 1..Len(s) |-> s[Len(s) + 1 - i]])

\* The least element of a set of positive numbers, 0 for the empty set.
Least(s) == IF s = {} THEN 0 ELSE CHOOSE k \in s : \A m \in s : k <= m

\* A loop "for i = lo .. hi: acc = f(acc, i)".  The range is split in halves and
\* the first half is evaluated (left = left) before the second is entered, so
\* that the evaluation nests only to the logarithm of the length.
RECURSIVE FoldRange(_, _, _, _)
FoldRange(f(_, _), acc, lo, hi) ==
  IF lo > hi THEN acc
  ELSE IF lo = hi THEN f(acc, lo)
  ELSE LET mid == (lo + hi) \div 2
           left == FoldRange(f, acc, lo, mid)
       IN  IF left = left THEN FoldRange(f, left, mid + 1, hi) ELSE left

(***************************************************************************)
(* The level template, rows as written in the source (top row first).      *)
(***************************************************************************)
mapRows == <<
    << " "," "," "," "," "," "," "," "," "," "," "," "," "," "," "," "," "," "," "," "," "," "," "," "," " >>,
    << " "," ","R"," "," ","H"," "," "," "," "," "," "," "," "," "," ","R"," "," ","H"," "," "," "," "," " >>,
    << "#","#","#","#","#","H","#","#","#","#","#"," "," "," ","#","#","#","#","#","H","#","#","#","#","#" >>,
    << " "," "," "," "," ","H"," "," "," "," "," "," "," "," "," "," "," "," "," ","H"," "," "," "," "," " >>,
    << " "," "," "," "," ","H"," "," "," "," "," "," ","H"," "," "," "," "," "," ","H"," "," "," "," "," " >>,
    << "#","#","#","#","#","H","#","#","#","#","#","#","H","#","#","#","#","#","#","H","#","#","#","#","#" >>,
    << " "," "," "," "," ","H"," "," "," "," "," "," ","H"," "," "," "," "," "," ","H"," "," "," "," "," " >>,
    << " "," "," "," "," ","H"," "," "," ","@"," "," ","H"," "," "," "," "," "," ","H"," "," ","S"," "," " >>,
    << " ","#","#","#","#","H","#","#","#","#","#","#","H","#","#","#","#","#","#","H","#","#","#","#"," " >>,
    << " "," "," "," "," ","H"," "," "," "," "," "," ","H"," "," "," "," "," "," ","H"," "," "," "," "," " >>,
    << " "," "," "," "," ","H"," "," "," "," "," "," ","H"," "," "," ","S"," "," ","H"," "," "," "," "," " >>,
    << "#","#","#","#","#","H","#","#","#","#","#","#","H","#","#","#","#","#","#","H","#","#","#","#","#" >>,
    << " "," "," "," "," ","H"," "," "," "," "," "," "," "," "," "," "," "," "," ","H"," "," "," "," "," " >>,
    << " "," ","R"," "," ","H"," "," "," "," "," "," "," "," "," "," "," "," "," ","H"," "," ","R"," "," " >>,
    << " ","#","#","#","#","#","#","#","#","#","#","#","#","#","#","#","#","#","#","#","#","#","#","#"," " >>
  >>

mapTemplate == Reverse(mapRows)

\* mapTemplate[y][x] with the source's 0-based indices.
Cell(x, y) == mapTemplate[y + 1][x + 1]

\* The cells of a template t in the order of the nested scan "for y ... for x ...",
\* each with its character.
Scan(t) ==
  AsArray([i \in 1..(Len(t) * Len(t[1])) |->
             [x |-> (i - 1) % Len(t[1]), y |-> (i - 1) \div Len(t[1]),
              ch |-> t[((i - 1) \div Len(t[1])) + 1][((i - 1) % Len(t[1])) + 1]]])

ScanCells == Scan(mapTemplate)

\* this.solids.push({ x: x * TILE_SIZE, y: y * TILE_SIZE, w: TILE_SIZE, h: TILE_SIZE })
SolidRects(cs) ==
  AsArray([i \in 1..Len(cs) |->
             [x |-> Fixed(cs[i].x * TILE_SIZE), y |-> Fixed(cs[i].y * TILE_SIZE),
              w |-> Fixed(TILE_SIZE), h |-> Fixed(TILE_SIZE)]])

\* this.ladders.push({ x: x * TILE_SIZE + 4, y: y * TILE_SIZE, w: 8, h: TILE_SIZE })
LadderRects(cs) ==
  AsArray([i \in 1..Len(cs) |->
             [x |-> Fixed(cs[i].x * TILE_SIZE + 4), y |-> Fixed(cs[i].y * TILE_SIZE),
              w |-> Fixed(8), h |-> Fixed(TILE_SIZE)]])

solids == SolidRects(SelectSeq(ScanCells, LAMBDA c : c.ch = "#"))

ladders == LadderRects(SelectSeq(ScanCells, LAMBDA c : c.ch = "H"))

(***************************************************************************)
(* Entities.                                                               *)
(***************************************************************************)
IsEnemyType(t) == t \in {"ENEMY_REINDEER", "ENEMY_SNOWMAN"}

createEntity(x, y, type, id) ==
  LET inset == type = "PLAYER" \/ IsEnemyType(type)
  IN  [id |-> id,
       type |-> type,
       rect |-> [x |-> IF inset THEN Fixed(x) + Fixed(2) ELSE Fixed(x),
                 y |-> Fixed(y),
                 w |-> IF inset THEN Fixed(12) ELSE Fixed(TILE_SIZE),
                 h |-> Fixed(TILE_SIZE)],
       velocity |-> [x |-> 0, y |-> 0],
       grounded |-> FALSE,
       onLadder |-> FALSE,
       direction |-> 1]

\* The cell a Gift or Decoration was created on (createEntity does not inset them).
CellOf(e) == [x |-> e.rect.x \div Fixed(TILE_SIZE), y |-> e.rect.y \div Fixed(TILE_SIZE)]

(***************************************************************************)
(* Math.random().  A stream is a sequence of numerators k; the value of    *)
(* the p-th call (p = 0, 1, ...) is stream[p mod Len] / RandSteps.         *)
(***************************************************************************)
Streams == [1..StreamLen -> 0..(RandSteps - 1)]

Random(stream, p) == stream[(p % Len(stream)) + 1]

\* Math.floor(Math.random() * n) for the random value k / RandSteps.
FloorRandom(k, n) == (k * n) \div RandSteps

\* The outcomes of [...a].sort(() => Math.random() - 0.5) on n elements:
\* the order such a comparator yields is any permutation.
SortOutcomes(n) == {p \in [1..n -> 1..n] : \A i, j \in 1..n : p[i] = p[j] => i = j}

(***************************************************************************)
(* initLevel.  A generation in progress is a record                        *)
(*   ents    the entities created so far, in creation order                *)
(*   idc     entityIdCounter                                               *)
(*   stream  the random stream, pos the number of Math.random() calls made *)
(*   occ     occupiedPositions, placed = giftsPlaced                       *)
(*   cands, avail, trees   extraCandidateSpots, availableX and             *)
(*           treesOnThisFloor of the loop that is running                  *)
(***************************************************************************)
SpawnType(ch) ==
  IF ch = "@" THEN "PLAYER" ELSE IF ch = "R" THEN "ENEMY_REINDEER" ELSE "ENEMY_SNOWMAN"

\* Second scan of the template: the player at '@', the enemies at 'R' and 'S'.
SpawnAt(cs, idc) ==
  AsArray([i \in 1..Len(cs) |->
             createEntity(cs[i].x * TILE_SIZE, cs[i].y * TILE_SIZE,
                          SpawnType(cs[i].ch), idc + i)])

spawnEntities(idc) ==
  SpawnAt(SelectSeq(ScanCells, LAMBDA c : c.ch \in {"@", "R", "S"}), idc)

\* y > 0 && row[x] === ' ' && mapTemplate[y - 1][x] === '#', on the template t.
StandingSpot(t, x, y) == y >= 1 /\ t[y + 1][x + 1] = " " /\ t[y][x + 1] = "#"

IsStandingSpot(x, y) == StandingSpot(mapTemplate, x, y)

Spots(t, y) ==
  SelectSeq([i \in 1..Len(t[y + 1]) |-> i - 1], LAMBDA x : StandingSpot(t, x, y))

FloorLevels(t) ==
  SelectSeq(AsArray([i \in 1..(Len(t) - 1) |-> [y |-> i, spots |-> Spots(t, i)]]),
            LAMBDA fl : Len(fl.spots) > 0)

allFloorLevels == FloorLevels(mapTemplate)

MaxFloorY(levels) == CHOOSE m \in {levels[i].y : i \in 1..Len(levels)} :
                        \A i \in 1..Len(levels) : levels[i].y <= m

\* A filter that keeps every floor level.
Reachable_all(levels) == levels

\* allFloorLevels.filter(fl => fl.y < maxFloorY) when there is more than one level.
Reachable(levels) ==
  IF Len(levels) > 1
  THEN SelectSeq(levels, LAMBDA fl : fl.y < MaxFloorY(levels))
  ELSE levels

reachableFloorLevels == Reachable(allFloorLevels)

\* A variant that draws the count from 3 .. 5.
totalGiftsCount_from3(stream) == FloorRandom(Random(stream, 0), 3) + 3

\* const totalGiftsCount = Math.floor(Math.random() * 3) + 4
totalGiftsCount(stream) == FloorRandom(Random(stream, 0), 3) + 4

\* createEntity(..., EntityType.GIFT, randomGiftKey): the spot was drawn by the
\* call before, the variant draw is one more call of Math.random().
placeGift(G, x, y) ==
  [G EXCEPT !.ents = Append(@, createEntity(x * TILE_SIZE, y * TILE_SIZE, "GIFT", G.idc + 1)),
            !.idc = @ + 1,
            !.pos = @ + 2,
            !.occ = @ \cup {<<x, y>>},
            !.placed = @ + 1]

\* [...reachableFloorLevels].sort(() => Math.random() - 0.5), for the outcome perm.
Shuffled(levels, perm) == AsArray([i \in 1..Len(levels) |-> levels[perm[i]]])

\* for (const level of shuffledReachableLevels): one gift per floor level while
\* giftsPlaced < totalGiftsCount.
placeFirstPass(G0, levels) ==
  FoldRange(LAMBDA G, i :
              IF G.placed < G.total
              THEN placeGift(G,
                             levels[i].spots[FloorRandom(Random(G.stream, G.pos),
                                                         Len(levels[i].spots)) + 1],
                             levels[i].y)
              ELSE G,
            G0, 1, Len(levels))

\* Candidates that include the spots that hold a gift.
extraCandidateSpots_any(levels, occ) ==
  SelectSeq(ScanCells,
            LAMBDA c : \E i \in 1..Len(levels) :
                          /\ levels[i].y = c.y
                          /\ \E j \in 1..Len(levels[i].spots) : levels[i].spots[j] = c.x)

\* The spots of the levels (in their order, bottom floor first) that hold no gift.
extraCandidateSpots(levels, occ) ==
  SelectSeq(ScanCells,
            LAMBDA c : /\ \E i \in 1..Len(levels) :
                            /\ levels[i].y = c.y
                            /\ \E j \in 1..Len(levels[i].spots) : levels[i].spots[j] = c.x
                       /\ <<c.x, c.y>> \notin occ)

\* a.splice(index, 1) on the 0-based index: the sequence without that element.
Splice(a, index) ==
  AsArray([k \in 1..(Len(a) - 1) |-> IF k <= index THEN a[k] ELSE a[k + 1]])

\* The gift at extraCandidateSpots[index], which is spliced out.
placeExtra(G, index) ==
  [placeGift(G, G.cands[index + 1].x, G.cands[index + 1].y) EXCEPT
     !.cands = Splice(G.cands, index)]

\* for (i = 0; i < remainingGiftsNeeded && extraCandidateSpots.length > 0; i++);
\* G.cands is extraCandidateSpots.
placeExtras(G0) ==
  FoldRange(LAMBDA G, i :
              IF Len(G.cands) > 0
              THEN placeExtra(G, FloorRandom(Random(G.stream, G.pos), Len(G.cands)))
              ELSE G,
            [G0 EXCEPT !.cands = extraCandidateSpots(reachableFloorLevels, G0.occ)],
            0, G0.total - G0.placed - 1)

\* [availableX[i], availableX[j]] = [availableX[j], availableX[i]]
Swap(a, i, j) == [a EXCEPT ![i + 1] = a[j + 1], ![j + 1] = a[i + 1]]

\* The Fisher-Yates shuffle of G.avail (availableX): i = length - 1 down to 1.
shuffle(G0) ==
  FoldRange(LAMBDA G, t :
              [G EXCEPT !.avail = Swap(@, Len(G.avail) - t,
                                       FloorRandom(Random(G.stream, G.pos),
                                                   Len(G.avail) - t + 1)),
                        !.pos = @ + 1],
            G0, 1, Len(G0.avail) - 1)

\* A variant that does not look at the cells the gifts occupy.
Available_anyFree(t, y, occ) ==
  SelectSeq([i \in 1..Len(t[y + 1]) |-> i - 1],
            LAMBDA x : t[y + 1][x + 1] = " " /\ t[y][x + 1] = "#")

\* The cells of row y of the template t that can take a tree.
Available(t, y, occ) ==
  SelectSeq([i \in 1..Len(t[y + 1]) |-> i - 1],
            LAMBDA x : /\ t[y + 1][x + 1] = " "
                       /\ t[y][x + 1] = "#"
                       /\ <<x, y>> \notin occ
                       /\ t[y + 1][x + 1] \notin {"@", "R", "S"})

availableX(y, occ) == Available(mapTemplate, y, occ)

\* for (const x of availableX): a tree with probability 0.25, at most 4 per floor
\* (G.trees is treesOnThisFloor).  A tree draws its variant with one more call;
\* the draws for its lights (addBlinkingLightsToTree) decide nothing of the level.
placeTrees(G0, y) ==
  FoldRange(LAMBDA G, k :
              IF G.trees < 4
              THEN IF 4 * Random(G.stream, G.pos) < RandSteps
                   THEN [G EXCEPT
                           !.ents = Append(@, createEntity(G.avail[k] * TILE_SIZE, y * TILE_SIZE,
                                                           "DECORATION", G.idc + 1)),
                           !.idc = @ + 1,
                           !.pos = @ + 2,
                           !.trees = @ + 1]
                   ELSE [G EXCEPT !.pos = @ + 1]
              ELSE G,
            G0, 1, Len(G0.avail))

\* for (let y = 1; y < mapTemplate.length; y++): the trees of every floor.
placeAllTrees(G0) ==
  FoldRange(LAMBDA G, y :
              placeTrees(shuffle([G EXCEPT !.avail = availableX(y, G.occ), !.trees = 0]), y),
            G0, 1, Len(mapRows) - 1)

\* initLevel before the gifts: the entities of the template, one call of
\* Math.random() made (totalGiftsCount), nothing placed.
NewLevel(spawned, stream, idc) ==
  [ents |-> spawned, idc |-> idc + Len(spawned), stream |-> stream, pos |-> 1,
   occ |-> {}, placed |-> 0, total |-> totalGiftsCount(stream),
   cands |-> <<>>, avail |-> <<>>, trees |-> 0]

\* this.player: the entity created for the last '@' of the scan.
PlayerOf(ents) ==
  ents[CHOOSE i \in 1..Len(ents) :
         /\ ents[i].type = "PLAYER"
         /\ \A j \in (i + 1)..Len(ents) : ents[j].type # "PLAYER"].id

Generated(G) ==
  [entities |-> G.ents, player |-> PlayerOf(G.ents), idc |-> G.idc, total |-> G.total]

\* The outcome of initLevel for one random stream and one order of the shuffled
\* floor levels, starting from entityIdCounter = idc.
initLevel(stream, perm, idc) ==
  Generated(placeAllTrees(placeExtras(
    placeFirstPass(NewLevel(spawnEntities(idc), stream, idc),
                   Shuffled(reachableFloorLevels, perm)))))

(***************************************************************************)
(* Geometry and movement.  dt is in milliseconds.                          *)
(***************************************************************************)
\* velocity * dt, a displacement in hundredths of a unit.
Disp(v, dt) == (v * dt) \div 10

\* GRAVITY * dt, a change of velocity in units per second.
GravityStep(dt) == (GRAVITY * dt) \div 1000

\* A test that counts rectangles that only touch as colliding.
checkCollision_closed(r1, r2) ==
  /\ r1.x <= r2.x + r2.w
  /\ r1.x + r1.w >= r2.x
  /\ r1.y <= r2.y + r2.h
  /\ r1.y + r1.h >= r2.y

checkCollision(r1, r2) ==
  /\ r1.x < r2.x + r2.w
  /\ r1.x + r1.w > r2.x
  /\ r1.y < r2.y + r2.h
  /\ r1.y + r1.h > r2.y

\* centerX > t.x && centerX < t.x + t.w && centerY > t.y && centerY < t.y + t.h
HoldsCentre(t, r1) ==
  /\ r1.x + r1.w \div 2 > t.x /\ r1.x + r1.w \div 2 < t.x + t.w
  /\ r1.y + r1.h \div 2 > t.y /\ r1.y + r1.h \div 2 < t.y + t.h

\* The index in targets of the first rectangle that holds the centre of r1; 0 for null.
checkOverlap(r1, targets) ==
  Least({k \in 1..Len(targets) : HoldsCentre(targets[k], r1)})

\* The body of the loop of handleCollisions for one solid.
resolveSolid(entity, axis, solid) ==
  IF ~checkCollision(entity.rect, solid) THEN entity
  ELSE IF axis = "x"
       THEN [entity EXCEPT
               !.rect.x = IF entity.velocity.x > 0 THEN solid.x - entity.rect.w
                          ELSE IF entity.velocity.x < 0 THEN solid.x + solid.w
                          ELSE @,
               !.velocity.x = 0]
       ELSE IF entity.velocity.y > 0
            THEN [entity EXCEPT !.rect.y = solid.y - entity.rect.h, !.velocity.y = 0]
            ELSE IF entity.velocity.y < 0
                 THEN [entity EXCEPT !.rect.y = solid.y + solid.h, !.velocity.y = 0,
                                     !.grounded = TRUE]
                 ELSE entity

\* The index of the first of the solids sol, from the index from on, that the
\* rectangle overlaps; 0 when there is none.
FirstHit(rect, sol, from) ==
  Least({k \in from..Len(sol) : checkCollision(rect, sol[k])})

\* for (const solid of this.solids): the iterations up to the first solid the
\* entity overlaps change nothing; k is the index of that solid, 0 for none.
RECURSIVE collideAt(_, _, _, _)
RECURSIVE collideAfter(_, _, _, _)
collideAt(entity, axis, sol, k) ==
  IF k = 0 THEN entity
  ELSE collideAfter(resolveSolid(entity, axis, sol[k]), axis, sol, k)

collideAfter(entity, axis, sol, k) ==
  collideAt(entity, axis, sol, FirstHit(entity.rect, sol, k + 1))

\* A resolution that aligns the entity with the grid of tiles along the axis,
\* whether or not it overlaps a solid.
handleCollisions_aligned(entity, axis) ==
  IF axis = "x"
  THEN [entity EXCEPT !.rect.x = (@ \div Fixed(TILE_SIZE)) * Fixed(TILE_SIZE)]
  ELSE [entity EXCEPT !.rect.y = (@ \div Fixed(TILE_SIZE)) * Fixed(TILE_SIZE)]

handleCollisions(entity, axis) == collideAfter(entity, axis, solids, 0)

\* entity.rect.x += entity.velocity.x * dt
moveX(entity, dt) == [entity EXCEPT !.rect.x = @ + Disp(entity.velocity.x, dt)]

\* entity.rect.y += entity.velocity.y * dt; entity.grounded = false
moveY(entity, dt) ==
  [entity EXCEPT !.rect.y = @ + Disp(entity.velocity.y, dt), !.grounded = FALSE]

\* A move that looks at no solid.
moveEntity_free(entity, dt) == moveY(moveX(entity, dt), dt)

\* A move that applies and resolves the vertical displacement first.
moveEntity_verticalFirst(entity, dt) ==
  handleCollisions(moveX(handleCollisions(moveY(entity, dt), "y"), dt), "x")

moveEntity(entity, dt) ==
  handleCollisions(moveY(handleCollisions(moveX(entity, dt), "x"), dt), "y")

\* constrainToWorld without the player-hit call: the two horizontal clamps and,
\* for an entity that is neither the player nor a Gift, the move to the top.
clampLeft(entity) ==
  IF entity.rect.x < 0 THEN [entity EXCEPT !.rect.x = 0, !.velocity.x = 0] ELSE entity

\* A clamp at the right edge that leaves the velocity as it is.
clampRight_moving(entity) ==
  IF entity.rect.x + entity.rect.w > Fixed(WORLD_WIDTH * TILE_SIZE)
  THEN [entity EXCEPT !.rect.x = Fixed(WORLD_WIDTH * TILE_SIZE) - entity.rect.w]
  ELSE entity

clampRight(entity) ==
  IF entity.rect.x + entity.rect.w > Fixed(WORLD_WIDTH * TILE_SIZE)
  THEN [entity EXCEPT !.rect.x = Fixed(WORLD_WIDTH * TILE_SIZE) - entity.rect.w,
                      !.velocity.x = 0]
  ELSE entity

wrapToTop(entity, isPlayer) ==
  IF entity.rect.y < 0 /\ ~isPlayer /\ entity.type # "GIFT"
  THEN [entity EXCEPT !.rect.y = Fixed(WORLD_HEIGHT * TILE_SIZE)]
  ELSE entity

clampToWorld(entity, isPlayer) == wrapToTop(clampRight(clampLeft(entity)), isPlayer)

(***************************************************************************)
(* The engine and its host.  An operator that models a method takes and    *)
(* returns a record S of the engine's fields                               *)
(*   entities, player, score, lives, isRunning, entityIdCounter            *)
(* the React state of App that the callbacks set                           *)
(*   hudScore, hudLives, hudGameOver, highScore                            *)
(* and three observations: gameOverCalls, the calls of onGameOver since    *)
(* construction or the last reset, genTotal, the totalGiftsCount drawn by  *)
(* the last initLevel, and calls, the callbacks invoked so far.            *)
(***************************************************************************)
IndexOf(S, id) == CHOOSE k \in 1..Len(S.entities) : S.entities[k].id = id

Entity(S, id) == S.entities[IndexOf(S, id)]

HasEntity(S, id) == \E k \in 1..Len(S.entities) : S.entities[k].id = id

SetEntity(S, e) == [S EXCEPT !.entities[IndexOf(S, e.id)] = e]

\* handleScore of App, as captured by GameCanvas when the engine was constructed.
\* A host that adds what onScore delivers to the score it shows.
onScoreUpdate_added(S, s) ==
  [S EXCEPT !.hudScore = @ + s,
            !.highScore = IF s > InitialHighScore THEN s ELSE @,
            !.calls = Append(@, <<"onScore", s>>)]

onScoreUpdate(S, s) ==
  [S EXCEPT !.hudScore = s,
            !.highScore = IF s > InitialHighScore THEN s ELSE @,
            !.calls = Append(@, <<"onScore", s>>)]

onLivesUpdate(S, l) ==
  [S EXCEPT !.hudLives = l, !.calls = Append(@, <<"onLives", l>>)]

onGameOver(S) ==
  [S EXCEPT !.hudGameOver = TRUE, !.gameOverCalls = @ + 1,
            !.calls = Append(@, <<"onGameOver">>)]

\* The player back at the respawn point, still moving.
respawn_keepsVelocity(p) ==
  [p EXCEPT !.rect.x = Fixed(TILE_SIZE * 12), !.rect.y = Fixed(TILE_SIZE * 7)]

\* The player put on the '@' cell of the template, at rest.
respawn_atSpawn(p) ==
  [p EXCEPT !.rect.x = Fixed(TILE_SIZE * 9) + Fixed(2),
            !.rect.y = Fixed(TILE_SIZE * 7),
            !.velocity = [x |-> 0, y |-> 0]]

\* The else-branch of handlePlayerHit: the player back at the respawn point.
respawn(p) ==
  [p EXCEPT !.rect.x = Fixed(TILE_SIZE * 12),
            !.rect.y = Fixed(TILE_SIZE * 7),
            !.velocity = [x |-> 0, y |-> 0]]

\* handlePlayerHit after this.lives-- and this.onLivesUpdate(this.lives).
afterLifeLost(S) ==
  IF S.lives <= 0
  THEN onGameOver([S EXCEPT !.isRunning = FALSE])
  ELSE SetEntity(S, respawn(Entity(S, S.player)))

handlePlayerHit(S) ==
  afterLifeLost(onLivesUpdate([S EXCEPT !.lives = @ - 1], S.lives - 1))

\* The last if of constrainToWorld, for the entity id of the engine S.
belowWorld(S, id) ==
  IF Entity(S, id).rect.y < 0 /\ id = S.player THEN handlePlayerHit(S) ELSE S

constrainToWorld(S, id) ==
  belowWorld(SetEntity(S, clampToWorld(Entity(S, id), id = S.player)), id)

removeEntity(S, id) ==
  [S EXCEPT !.entities = SelectSeq(S.entities, LAMBDA e : e.id # id)]

\* The ladder nudge: rect.x += diff * 10 * dt, rounded towards zero to a hundredth.
Nudge(diff, dt) == Sign(diff) * ((Abs(diff) * dt) \div 100)

\* ladderCenter - playerCenter
CentreDiff(ladder, p) == (ladder.x + ladder.w \div 2) - (p.rect.x + p.rect.w \div 2)

\* update(), the branch "if (this.player.onLadder)"; ladder is ladderParams.
climb(p, ladder, input, dt) ==
  [p EXCEPT !.onLadder = TRUE,
            !.velocity = [x |-> (input.x * MOVE_SPEED * 8) \div 10,
                          y |-> input.y * CLIMB_SPEED],
            !.grounded = TRUE,
            !.rect.x = IF input.y # 0 /\ Abs(CentreDiff(ladder, p)) < Fixed(4)
                       THEN @ + Nudge(CentreDiff(ladder, p), dt) ELSE @]

\* Walking and falling with a jump that starts in the air as well.
walk_jumpsInTheAir(p, input, dt) ==
  [p EXCEPT !.onLadder = FALSE,
            !.velocity = [x |-> input.x * MOVE_SPEED,
                          y |-> IF input.jump THEN JUMP_FORCE
                                ELSE p.velocity.y - GravityStep(dt)],
            !.grounded = IF input.jump THEN FALSE ELSE @]

\* update(), the else-branch: walking, falling and the jump.
walk(p, input, dt) ==
  [p EXCEPT !.onLadder = FALSE,
            !.velocity = [x |-> input.x * MOVE_SPEED,
                          y |-> IF input.jump /\ p.grounded THEN JUMP_FORCE
                                ELSE p.velocity.y - GravityStep(dt)],
            !.grounded = IF input.jump /\ p.grounded THEN FALSE ELSE @]

\* ladderParams is the index of the ladder checkOverlap found, 0 for null.
steer(p, ladderParams, input, dt) ==
  IF ladderParams # 0 THEN climb(p, ladders[ladderParams], input, dt)
  ELSE walk(p, input, dt)

\* if (axis.x !== 0) this.player.direction = Math.sign(axis.x)
face(p, input) == IF input.x # 0 THEN [p EXCEPT !.direction = Sign(input.x)] ELSE p

\* update(), from its start to constrainToWorld(this.player): the player's step.
\* input = [x, y, jump]: getAxis() and isJumpPressed().
updatePlayer(S, input, dt) ==
  constrainToWorld(
    SetEntity(S, moveEntity(face(steer(Entity(S, S.player),
                                       checkOverlap(Entity(S, S.player).rect, ladders),
                                       input, dt),
                                 input),
                            dt)),
    S.player)

\* distY < TILE_SIZE && Math.abs(distX) < TILE_SIZE * 8
chases(entity, p) ==
  /\ Abs(entity.rect.y - p.rect.y) < Fixed(TILE_SIZE)
  /\ Abs(p.rect.x - entity.rect.x) < Fixed(TILE_SIZE * 8)

\* The enemy's direction and velocity for this step.
aim(entity, p, dt) ==
  IF chases(entity, p)
  THEN [entity EXCEPT
          !.direction = Sign(p.rect.x - entity.rect.x),
          !.velocity.x = (Sign(p.rect.x - entity.rect.x) * ENEMY_SPEED * 12) \div 10,
          !.velocity.y = @ - GravityStep(dt)]
  ELSE [entity EXCEPT
          !.velocity.x = entity.direction * ENEMY_SPEED,
          !.velocity.y = @ - GravityStep(dt)]

\* An enemy that never turns.
turn_never(entity) == entity

\* if (entity.velocity.x === 0) entity.direction *= -1
turn(entity) ==
  IF entity.velocity.x = 0 THEN [entity EXCEPT !.direction = -(@)] ELSE entity

\* A contact that costs a life only while the game goes on.
touch_whileRunning(S, id) ==
  IF checkCollision(Entity(S, S.player).rect, Entity(S, id).rect) /\ S.isRunning
  THEN handlePlayerHit(S)
  ELSE S

\* if (this.checkCollision(this.player.rect, entity.rect)) this.handlePlayerHit()
touch(S, id) ==
  IF checkCollision(Entity(S, S.player).rect, Entity(S, id).rect)
  THEN handlePlayerHit(S)
  ELSE S

\* The loop body for an enemy.
updateEnemy(S, entity, dt) ==
  touch(SetEntity(S, turn(clampToWorld(moveEntity(aim(entity, Entity(S, S.player), dt), dt),
                                       FALSE))),
        entity.id)

\* A pickup that leaves the gift in the level.
updateGift_keepsGift(S, entity) ==
  IF checkCollision(Entity(S, S.player).rect, entity.rect)
  THEN onScoreUpdate([S EXCEPT !.score = @ + 100], S.score + 100)
  ELSE S

\* The loop body for a Gift.
updateGift(S, entity) ==
  IF checkCollision(Entity(S, S.player).rect, entity.rect)
  THEN removeEntity(onScoreUpdate([S EXCEPT !.score = @ + 100], S.score + 100), entity.id)
  ELSE S

\* The loop body for the entity, one of the array the loop runs over.
updateOne(S, entity, dt) ==
  IF entity.type = "GIFT" THEN updateGift(S, entity)
  ELSE IF IsEnemyType(entity.type) THEN updateEnemy(S, entity, dt)
  ELSE S

\* One iteration of "for (const entity of this.entities)" in update(): id is
\* the entity of the iteration, an element of the array the loop was started on.
updateEntity(S, id, dt) ==
  IF id = S.player \/ ~HasEntity(S, id) THEN S
  ELSE updateOne(S, Entity(S, id), dt)

Gifts(S) == SelectSeq(S.entities, LAMBDA e : e.type = "GIFT")

\* A level added to the entities of the engine S, which are not cleared.
withLevel_added(S, L) ==
  [S EXCEPT !.entities = @ \o L.entities, !.player = L.player,
            !.entityIdCounter = L.idc, !.genTotal = L.total]

\* The engine S with the level L that initLevel generated.
withLevel(S, L) ==
  [S EXCEPT !.entities = L.entities, !.player = L.player,
            !.entityIdCounter = L.idc, !.genTotal = L.total]

\* this.initLevel() on the engine S.
regenerate(S, draw) ==
  withLevel(S, initLevel(draw.stream, draw.perm, S.entityIdCounter))

\* A level clear without the bonus.
levelClear_noBonus(S, draw) ==
  IF Len(Gifts(S)) = 0 /\ Len(S.entities) > 0 THEN regenerate(S, draw) ELSE S

\* A level clear that gives the new player the rectangle and the velocity of
\* the player of the level cleared.
levelClear_keepsPlayer(S, draw) ==
  IF Len(Gifts(S)) = 0 /\ Len(S.entities) > 0
  THEN \* the regenerated engine, with its player replaced
       SetEntity(regenerate(onScoreUpdate([S EXCEPT !.score = @ + 1000], S.score + 1000), draw),
                 [createEntity(0, 0, "PLAYER",
                               PlayerOf(regenerate(S, draw).entities))
                    EXCEPT !.rect = Entity(S, S.player).rect,
                           !.velocity = Entity(S, S.player).velocity])
  ELSE S

\* A bonus and a regeneration at the end of every update.
levelClear_everyStep(S, draw) ==
  regenerate(onScoreUpdate([S EXCEPT !.score = @ + 1000], S.score + 1000), draw)

\* The end of update(): the level-clear bonus and the regeneration.
levelClear(S, draw) ==
  IF Len(Gifts(S)) = 0 /\ Len(S.entities) > 0
  THEN regenerate(onScoreUpdate([S EXCEPT !.score = @ + 1000], S.score + 1000), draw)
  ELSE S

\* A reset that keeps the lives.
resetEngine_keepsLives(S, draw) ==
  [regenerate(onLivesUpdate(onScoreUpdate([S EXCEPT !.score = 0], 0), 3), draw)
     EXCEPT !.isRunning = TRUE, !.gameOverCalls = 0]

\* reset(), up to its call of loop().
resetEngine(S, draw) ==
  [regenerate(onLivesUpdate(onScoreUpdate([S EXCEPT !.score = 0, !.lives = 3], 0), 3), draw)
     EXCEPT !.isRunning = TRUE, !.gameOverCalls = 0]

\* handleRestart of App: the host's side of a restart, before the effect calls reset().
handleRestart(S) ==
  [S EXCEPT !.hudGameOver = FALSE, !.hudScore = 0, !.hudLives = 3]

(***************************************************************************)
(* State.                                                                  *)
(*   entities .. genTotal   the fields of the record S above               *)
(*   sinceLast   performance.now() - lastTime, in ms                       *)
(*   pending     the loop callbacks requestAnimationFrame has scheduled    *)
(*   pc          where the running handler is: "new" (constructor, before  *)
(*               initLevel), "start" (before start()), "idle" (no handler  *)
(*               runs), "resetLoop" (reset(), before its call of loop()),  *)
(*               "entities" (update(), in the loop over the entities),     *)
(*               "levelCheck" (update(), after that loop)                  *)
(*   loopEnts, loopIdx   the array that loop iterates (ids) and its index  *)
(*   dt          the time step of the update in progress, in ms            *)
(*   fresh       initLevel returned in the last action                     *)
(*   frames, resets   the updates and resets so far (for the bounds)       *)
(*   stepStart   lives, score, the gifts and the id counter when the        *)
(*               current or last update started, and fell: the player's    *)
(*               movement of that update ended below y = 0, elapsed: the   *)
(*               real time in ms since the clock was last read, from: the  *)
(*               pc the update was entered from, input: the keys that      *)
(*               update read, grounded: the player's grounded flag then    *)
(*   calls       the host callbacks the last action invoked, in order      *)
(*   probe       a call of a geometry method on its own: its arguments     *)
(*               and, once it is made, its results                         *)
(***************************************************************************)
VARIABLES entities, player, score, lives, isRunning, entityIdCounter,
          hudScore, hudLives, hudGameOver, highScore, gameOverCalls, genTotal,
          sinceLast, pending, pc, loopEnts, loopIdx, dt, fresh, frames, resets,
          stepStart, calls, probe

vars == <<entities, player, score, lives, isRunning, entityIdCounter,
          hudScore, hudLives, hudGameOver, highScore, gameOverCalls, genTotal,
          sinceLast, pending, pc, loopEnts, loopIdx, dt, fresh, frames, resets,
          stepStart, calls, probe>>

This ==
  [entities |-> entities, player |-> player, score |-> score, lives |-> lives,
   isRunning |-> isRunning, entityIdCounter |-> entityIdCounter,
   hudScore |-> hudScore, hudLives |-> hudLives, hudGameOver |-> hudGameOver,
   highScore |-> highScore, gameOverCalls |-> gameOverCalls, genTotal |-> genTotal,
   calls |-> <<>>]

Commit(S) ==
  /\ entities' = S.entities
  /\ player' = S.player
  /\ score' = S.score
  /\ lives' = S.lives
  /\ isRunning' = S.isRunning
  /\ entityIdCounter' = S.entityIdCounter
  /\ hudScore' = S.hudScore
  /\ hudLives' = S.hudLives
  /\ hudGameOver' = S.hudGameOver
  /\ highScore' = S.highScore
  /\ gameOverCalls' = S.gameOverCalls
  /\ genTotal' = S.genTotal
  /\ calls' = S.calls

Assign(S) ==
  /\ entities = S.entities
  /\ player = S.player
  /\ score = S.score
  /\ lives = S.lives
  /\ isRunning = S.isRunning
  /\ entityIdCounter = S.entityIdCounter
  /\ hudScore = S.hudScore
  /\ hudLives = S.hudLives
  /\ hudGameOver = S.hudGameOver
  /\ highScore = S.highScore
  /\ gameOverCalls = S.gameOverCalls
  /\ genTotal = S.genTotal
  /\ calls = <<>>

\* No call of a geometry method on its own is under way.
NoProbe == [op |-> "none"]

\* The engine as its field initializers leave it, and App's initial state.
NewEngine ==
  [entities |-> <<>>, player |-> 0, score |-> 0, lives |-> 3, isRunning |-> FALSE,
   entityIdCounter |-> 0, hudScore |-> 0, hudLives |-> 3, hudGameOver |-> FALSE,
   highScore |-> InitialHighScore, gameOverCalls |-> 0, genTotal |-> 0,
   calls |-> <<>>]

(***************************************************************************)
(* Inputs.                                                                 *)
(***************************************************************************)
\* A random stream and an outcome of the shuffle of the reachable floor levels.
AllDraws ==
  [stream : Streams, perm : SortOutcomes(Len(reachableFloorLevels))]

\* The draws of the levels of a game in play: Math.random() returns its least
\* value every time or its greatest value every time, and the sort leaves the
\* floor levels in their order.
PlayDraws ==
  {[stream |-> [i \in 1..StreamLen |-> k],
    perm |-> [i \in 1..Len(reachableFloorLevels) |-> i]] : k \in {0, RandSteps - 1}}

\* getAxis() and isJumpPressed(): no key, one arrow key, or the jump key.
Inputs ==
  {[x |-> 0, y |-> 0, jump |-> FALSE], [x |-> -1, y |-> 0, jump |-> FALSE],
   [x |-> 1, y |-> 0, jump |-> FALSE], [x |-> 0, y |-> 1, jump |-> FALSE],
   [x |-> 0, y |-> -1, jump |-> FALSE], [x |-> 0, y |-> 0, jump |-> TRUE]}

\* The real time, in ms, between two reads of performance.now(): below and
\* above the cap of the time step.
Elapsed == {50, 250}

(***************************************************************************)
(* Actions.                                                                *)
(***************************************************************************)
\* The ids of an array of entities, as the for-of loop visits them.
Ids(ents) == AsArray([k \in 1..Len(ents) |-> ents[k].id])

\* An iteration of the loop changes nothing for the player, a Decoration (only
\* the lights of a tree blink) and an entity that has been removed: the index of
\* the first iteration from i on that is for a Gift or an enemy of ents,
\* Len(ids) + 1 when there is none.
SkipIdle(ents, ids, i) ==
  IF \E k \in i..Len(ids) : \E e \in 1..Len(ents) :
        ents[e].id = ids[k] /\ ents[e].type # "PLAYER" /\ ents[e].type # "DECORATION"
  THEN Least({k \in i..Len(ids) : \E e \in 1..Len(ents) :
                ents[e].id = ids[k] /\ ents[e].type # "PLAYER"
                                    /\ ents[e].type # "DECORATION"})
  ELSE Len(ids) + 1

Snapshot(S) == [lives |-> S.lives, score |-> S.score, gifts |-> Len(Gifts(S)),
                player |-> S.player, idc |-> S.entityIdCounter, fell |-> FALSE,
                elapsed |-> 0, from |-> "idle",
                input |-> [x |-> 0, y |-> 0, jump |-> FALSE], grounded |-> FALSE]

\* update() enters its loop over the entities of the engine S1; step is dt.
EnterLoop(S1, step) ==
  /\ Commit(S1)
  /\ dt' = step
  /\ sinceLast' = 0
  /\ loopEnts' = Ids(S1.entities)
  /\ loopIdx' = SkipIdle(S1.entities, loopEnts', 1)
  /\ pc' = IF loopIdx' > Len(loopEnts') THEN "levelCheck" ELSE "entities"
  /\ fresh' = FALSE
  /\ frames' = frames + 1

\* loop() with this.isRunning true: the time step, then update() up to its
\* loop over the entities.  el is the time since the last read of the clock.
BeginUpdate(S, input, el) ==
  /\ EnterLoop(updatePlayer(S, input, Min(sinceLast + el, 100)), Min(sinceLast + el, 100))
  /\ stepStart' = [Snapshot(S) EXCEPT !.fell = lives' < S.lives,
                                       !.elapsed = sinceLast + el, !.from = pc,
                                       !.input = input,
                                       !.grounded = Entity(S, S.player).grounded]

\* The constructor, up to and including this.initLevel().
construct(draws) ==
  /\ pc = "new"
  /\ \E d \in draws : Commit(regenerate(This, d))
  /\ pc' = "start"
  /\ fresh' = TRUE
  /\ UNCHANGED <<sinceLast, pending, loopEnts, loopIdx, dt, frames, resets, stepStart, probe>>

\* this.start(): lastTime = performance.now(), then the first loop().
start ==
  /\ pc = "start"
  /\ \E input \in Inputs :
       BeginUpdate([This EXCEPT !.isRunning = TRUE], input, 0)
  /\ UNCHANGED <<pending, resets, probe>>

\* A frame callback that updates whether or not the clock runs.
frame_unguarded ==
  /\ pc = "idle"
  /\ pending > 0
  /\ pending' = pending - 1
  /\ frames < MaxFrames
  /\ \E el \in Elapsed, input \in Inputs : BeginUpdate(This, input, el)
  /\ UNCHANGED <<resets, probe>>

\* A frame callback: loop(), run by requestAnimationFrame.
frame ==
  /\ pc = "idle"
  /\ pending > 0
  /\ pending' = pending - 1
  /\ UNCHANGED probe
  /\ \E el \in Elapsed :
       IF isRunning
       THEN /\ frames < MaxFrames
            /\ \E input \in Inputs : BeginUpdate(This, input, el)
            /\ UNCHANGED resets
       ELSE /\ sinceLast' = sinceLast + el
            /\ fresh' = FALSE
            /\ calls' = <<>>
            /\ UNCHANGED <<entities, player, score, lives, isRunning, entityIdCounter,
                           hudScore, hudLives, hudGameOver, highScore, gameOverCalls,
                           genTotal, pc, loopEnts, loopIdx, dt, frames, resets, stepStart>>

\* One iteration of the loop over the entities.
entityStep ==
  /\ pc = "entities"
  /\ Commit(updateEntity(This, loopEnts[loopIdx], dt))
  /\ loopIdx' = SkipIdle(entities', loopEnts, loopIdx + 1)
  /\ pc' = IF loopIdx' > Len(loopEnts) THEN "levelCheck" ELSE "entities"
  /\ UNCHANGED <<sinceLast, pending, loopEnts, dt, fresh, frames, resets, stepStart, probe>>

\* The end of update() and of loop(): the level check, the render, and
\* requestAnimationFrame(this.loop).
levelCheck ==
  /\ pc = "levelCheck"
  /\ \E d \in PlayDraws : Commit(levelClear(This, d))
  /\ fresh' = (player' # player)
  /\ pc' = "idle"
  /\ pending' = pending + 1
  /\ loopEnts' = <<>>
  /\ loopIdx' = 0
  /\ UNCHANGED <<sinceLast, dt, frames, resets, stepStart, probe>>

\* handleRestart of App and the effect of GameCanvas it triggers: reset(), up to
\* its call of loop().  The engine's reset() is public: it is called in any state.
reset ==
  /\ pc = "idle"
  /\ resets < MaxResets
  /\ frames < MaxFrames
  /\ \E d \in PlayDraws, el \in Elapsed :
       /\ Commit(resetEngine(handleRestart(This), d))
       /\ sinceLast' = sinceLast + el
  /\ pc' = "resetLoop"
  /\ fresh' = TRUE
  /\ resets' = resets + 1
  /\ UNCHANGED <<pending, loopEnts, loopIdx, dt, frames, stepStart, probe>>

\* The call of loop() that ends reset().
resetLoop ==
  /\ pc = "resetLoop"
  /\ \E input \in Inputs : BeginUpdate(This, input, 0)
  /\ UNCHANGED <<pending, resets, probe>>

InitNew ==
  /\ Assign(NewEngine)
  /\ sinceLast = 0 /\ pending = 0 /\ pc = "new" /\ loopEnts = <<>> /\ loopIdx = 0
  /\ dt = 0 /\ fresh = FALSE /\ frames = 0 /\ resets = 0
  /\ stepStart = Snapshot(NewEngine)
  /\ probe = NoProbe

(***************************************************************************)
(* Specifications.                                                         *)
(***************************************************************************)
\* The construction of the engine, for every outcome of the random draws of
\* initLevel, up to the first update.
NextConstruct == construct(AllDraws) \/ start

SpecConstruct == InitNew /\ [][NextConstruct]_vars

\* The loop over the entities of one update() as a whole.
updateEntities(S0, ids, step) ==
  FoldRange(LAMBDA S, i : updateEntity(S, ids[i], step), S0, 1, Len(ids))

\* The first update of the engine S, whose time step is 0, without input.
FirstUpdate(S) == updateEntities(S, Ids(S.entities), 0)

\* The engine once the constructor has returned: initLevel, start() and the
\* first update.
Constructed(d) ==
  FirstUpdate(updatePlayer([regenerate(NewEngine, d) EXCEPT !.isRunning = TRUE],
                           [x |-> 0, y |-> 0, jump |-> FALSE], 0))

\* The loop over the entities of the engine S, and one update() as a whole:
\* the player's step, the loop and the level check.
entityLoop(S, step) == updateEntities(S, Ids(S.entities), step)

update(S, input, step, d) == levelClear(entityLoop(updatePlayer(S, input, step), step), d)

Key(x, y) == [x |-> x, y |-> y, jump |-> FALSE]

Held(key, n) == [i \in 1..n |-> key]

\* The engine S after one update per key of keys, each a frame of 100 ms or more.
Played(S, keys, d) ==
  FoldRange(LAMBDA T, i : update(T, keys[i], 100, d), S, 1, Len(keys))

\* From the spawn, left along the floor and off its end in column 0, which costs
\* a life; from the respawn point left to the ladder of column 5, down to the
\* bottom floor and left into the gap of column 0.
WayToTheEdge ==
  Held(Key(-1, 0), 32) \o Held(Key(0, -1), 4) \o Held(Key(-1, 0), 1)
    \o Held(Key(0, -1), 2) \o Held(Key(-1, 0), 8)

\* From the spawn, left and back for the time the snowman of that floor takes to
\* fall through the gap of column 24 to the bottom floor; right, into the ladder
\* hole of column 12 and down through it; right along the floor below into the
\* ladder hole of column 19, and one step against its left wall.
WayDownTheHoles ==
  Held(Key(-1, 0), 3) \o Held(Key(1, 0), 8) \o Held(Key(0, 0), 2)
    \o Held(Key(1, 0), 11) \o Held(Key(-1, 0), 1)

\* No key, for the time the reindeer and the snowman created in column 22 take
\* to walk to the right edge of their floors.
WaitForTheEdge == Held(Key(0, 0), 5)

\* From the spawn right into the ladder hole of column 12, and down through it
\* to the ladder between the two floors below.
WayToTheLadder == Held(Key(1, 0), 5) \o Held(Key(0, 0), 3)

\* An entity standing still at (x, y).
Standing(e, x, y, dir) ==
  [e EXCEPT !.rect.x = x, !.rect.y = y, !.velocity.y = 0, !.grounded = TRUE,
            !.direction = dir]

\* An entity falling at (x, y) with the vertical velocity vy.
Falling(e, x, y, vy) ==
  [e EXCEPT !.rect.x = x, !.rect.y = y, !.velocity.y = vy, !.grounded = FALSE]

\* The engine without the gifts whose ids are in gone, picked up at 100 points each.
Without(S, gone) ==
  [S EXCEPT !.entities = SelectSeq(S.entities, LAMBDA e : e.id \notin gone),
            !.score = 100 * Cardinality(gone), !.hudScore = 100 * Cardinality(gone)]

\* The engine with only the gift g left.
Collected(S, g) ==
  Without(S, {Gifts(S)[k].id : k \in {j \in 1..Len(Gifts(S)) : Gifts(S)[j].id # g.id}})

WithLives(S, n) == [S EXCEPT !.lives = n, !.hudLives = n]

\* The player p of S standing right beside the gift g, on the side the world has room.
Beside(S, p, g) ==
  SetEntity(S, Standing(p, IF g.rect.x >= p.rect.w THEN g.rect.x - p.rect.w
                           ELSE g.rect.x + g.rect.w,
                        g.rect.y, 1))

\* The player at (x, y) on a floor, an enemy 17 units to its left and one 17
\* units to its right, walking towards it.
Flanked(S, left, right, x, y) ==
  SetEntity(SetEntity(SetEntity(S, Standing(Entity(S, S.player), x, y, 1)),
                      Standing(left, x - Fixed(17), y, 1)),
            Standing(right, x + Fixed(17), y, -1))

\* Situations of a game in progress.  Each is a state of play: the player stands
\* or falls where walking, climbing or falling takes it, the enemies are on floors
\* they patrol or fall to, some gifts are picked up, some lives are lost.
\*   fresh     the engine as constructed
\*   gift      the player right beside the k-th gift, all gifts or only that one left
\*   flanked   the player on the bottom floor between the two reindeer of that floor
\*   edge      the player in the gap of column 0 of the bottom floor, falling
\*   ambush    the game after the keys of WayToTheEdge: the player falls in that
\*             gap with 2 lives while a reindeer walks over the respawn point
\*   descent   the game after the keys of WayDownTheHoles: the player falls in
\*             the ladder hole of column 19 towards the bottom floor, where
\*             the snowman walks under that hole
\*   patrol    the game after the keys of WaitForTheEdge: two enemies are
\*             about to walk off the right end of their floors
\*   ladder    the game after the keys of WayToTheLadder: the player is on
\*             the ladder of column 12
Situations ==
  {[kind |-> "fresh", k |-> 0, only |-> FALSE, lives |-> 3],
   [kind |-> "ambush", k |-> 0, only |-> FALSE, lives |-> 2],
   [kind |-> "descent", k |-> 0, only |-> FALSE, lives |-> 3],
   [kind |-> "patrol", k |-> 0, only |-> FALSE, lives |-> 3],
   [kind |-> "ladder", k |-> 0, only |-> FALSE, lives |-> 3]}
  \cup [kind : {"gift"}, k : 1..4, only : BOOLEAN, lives : {3}]
  \cup [kind : {"flanked", "edge"}, k : {0}, only : {FALSE}, lives : 1..3]

Arrange(S, sit) ==
  IF sit.kind = "fresh" THEN S
  ELSE IF sit.kind = "gift"
  THEN WithLives(Beside(IF sit.only THEN Collected(S, Gifts(S)[sit.k]) ELSE S,
                        Entity(S, S.player), Gifts(S)[sit.k]),
                 sit.lives)
  ELSE IF sit.kind = "flanked"
  THEN WithLives(Flanked(S, S.entities[1], S.entities[2], Fixed(200), Fixed(TILE_SIZE)),
                 sit.lives)
  ELSE WithLives(SetEntity(S, Falling(Entity(S, S.player), 0, Fixed(4), -120)), sit.lives)

Situation(d, sit) ==
  IF sit.kind = "ambush" THEN Played(Constructed(d), WayToTheEdge, d)
  ELSE IF sit.kind = "descent" THEN Played(Constructed(d), WayDownTheHoles, d)
  ELSE IF sit.kind = "patrol" THEN Played(Constructed(d), WaitForTheEdge, d)
  ELSE IF sit.kind = "ladder" THEN Played(Constructed(d), WayToTheLadder, d)
  ELSE Arrange(Constructed(d), sit)

\* Between two updates the player overlaps no gift: an update picks up every gift
\* the player overlaps.
NoGiftOverlap(S) ==
  \A k \in 1..Len(S.entities) :
     S.entities[k].type = "GIFT" =>
       ~checkCollision(Entity(S, S.player).rect, S.entities[k].rect)

Init ==
  /\ \E d \in PlayDraws, sit \in Situations :
       \E S \in {Situation(d, sit)} :
          /\ NoGiftOverlap(S)
          /\ Assign(S)
          /\ stepStart = Snapshot(S)
  /\ sinceLast = 0 /\ pending = 1 /\ pc = "idle" /\ loopEnts = <<>> /\ loopIdx = 0
  /\ dt = 0 /\ fresh = FALSE /\ frames = 0 /\ resets = 0
  /\ probe = NoProbe

Next == frame \/ entityStep \/ levelCheck \/ reset \/ resetLoop

Spec == Init /\ [][Next]_vars

(***************************************************************************)
(* The geometry methods on their own.  checkCollision, handleCollisions    *)
(* and moveEntity are private methods that read nothing of the engine but  *)
(* this.solids, which initLevel fills from the template alone: probe holds *)
(* the arguments of one call and, once the call is made, what it returned  *)
(* or left in the entity.                                                  *)
(***************************************************************************)
\* Rectangles with positive width and height on a small integer grid.
MaxCoord == 3
MaxSize == 2

Rects == [x : 0..MaxCoord, y : 0..MaxCoord, w : 1..MaxSize, h : 1..MaxSize]

\* Entities with the player's rectangle about the left end of the floor of
\* row 6 of the level (its first block is at x = 16, y = 96): rectangles
\* clear of the floor, touching it, and overlapping it from the side, from
\* above and from below; at rest and moving either way along either axis.
ProbeSteps == 4

ProbeSpeeds == {-300, -100, 0, 100, 300}

ProbeEntities ==
  {[createEntity(0, 0, "PLAYER", 1) EXCEPT
      !.rect.x = Fixed(4 * i), !.rect.y = Fixed(5 * TILE_SIZE + 8 * j),
      !.velocity.x = vx, !.velocity.y = vy, !.grounded = g] :
     i \in 0..ProbeSteps, j \in 0..ProbeSteps,
     vx \in ProbeSpeeds, vy \in ProbeSpeeds, g \in BOOLEAN}

InitGeometry ==
  /\ Assign(NewEngine)
  /\ sinceLast = 0 /\ pending = 0 /\ pc = "geometry" /\ loopEnts = <<>> /\ loopIdx = 0
  /\ dt = 0 /\ fresh = FALSE /\ frames = 0 /\ resets = 0
  /\ stepStart = Snapshot(NewEngine)
  /\ \/ \E r1 \in Rects, r2 \in Rects : probe = [op |-> "rects", r1 |-> r1, r2 |-> r2]
     \/ \E e \in ProbeEntities : probe = [op |-> "entity", entity |-> e]

Unprobed ==
  UNCHANGED <<entities, player, score, lives, isRunning, entityIdCounter,
              hudScore, hudLives, hudGameOver, highScore, gameOverCalls, genTotal,
              sinceLast, pending, pc, loopEnts, loopIdx, dt, fresh, frames, resets,
              stepStart, calls>>

\* this.checkCollision(r1, r2), and the call with the arguments exchanged.
callCheckCollision ==
  /\ probe.op = "rects"
  /\ probe' = [op |-> "checkCollision", r1 |-> probe.r1, r2 |-> probe.r2,
               out |-> checkCollision(probe.r1, probe.r2),
               swapped |-> checkCollision(probe.r2, probe.r1)]
  /\ Unprobed

\* this.handleCollisions(entity, axis), twice in a row.
callHandleCollisions ==
  /\ probe.op = "entity"
  /\ \E axis \in {"x", "y"} :
       \E once \in {handleCollisions(probe.entity, axis)} :
          probe' = [op |-> "handleCollisions", entity |-> probe.entity, axis |-> axis,
                    out |-> once, again |-> handleCollisions(once, axis)]
  /\ Unprobed

\* this.moveEntity(entity, dt), with the entity as the horizontal pass leaves it
\* (sided) and as the vertical pass finds it (lifted).
callMoveEntity ==
  /\ probe.op = "entity"
  /\ \E step \in Elapsed :
       \E sided \in {handleCollisions(moveX(probe.entity, Min(step, 100)), "x")} :
          probe' = [op |-> "moveEntity", entity |-> probe.entity, dt |-> Min(step, 100),
                    sided |-> sided, lifted |-> moveY(sided, Min(step, 100)),
                    out |-> moveEntity(probe.entity, Min(step, 100))]
  /\ Unprobed

NextGeometry == callCheckCollision \/ callHandleCollisions \/ callMoveEntity

SpecGeometry == InitGeometry /\ [][NextGeometry]_vars

(***************************************************************************)
(* The score callbacks of a game and its restarts, as the host receives    *)
(* them: the engine's score, the gifts left in its level (left) and the    *)
(* greatest score reported so far (best); the entities are left out.       *)
(***************************************************************************)
\* The score of a game is followed up to this value.
MaxScore == 2000

\* The gifts of a generated level: totalGiftsCount, for every draw.
LevelSizes == {totalGiftsCount(s) : s \in Streams}

Max(a, b) == IF a > b THEN a ELSE b

\* App mounts, GameCanvas constructs the engine: score 0, high score 1440, a
\* level of 4 to 6 gifts.
InitHud ==
  /\ Assign(NewEngine)
  /\ sinceLast = 0 /\ pending = 0 /\ pc = "hud" /\ loopEnts = <<>> /\ loopIdx = 0
  /\ dt = 0 /\ fresh = FALSE /\ frames = 0 /\ resets = 0
  /\ stepStart = Snapshot(NewEngine)
  /\ \E n \in LevelSizes : probe = [op |-> "hud", left |-> n, best |-> 0]

\* What the score callbacks leave alone.
HudQuiet ==
  UNCHANGED <<entities, player, lives, isRunning, entityIdCounter, hudLives,
              hudGameOver, gameOverCalls, genTotal, sinceLast, pending, loopEnts,
              loopIdx, dt, fresh, frames, resets, stepStart>>

\* this.score += n; this.onScoreUpdate(this.score)
scored(n) ==
  \E S \in {onScoreUpdate([This EXCEPT !.score = @ + n], score + n)} :
     /\ score' = S.score /\ hudScore' = S.hudScore /\ highScore' = S.highScore
     /\ calls' = S.calls

\* The player picks a gift up: 100 points; the level check of the same update
\* follows when it was the last gift of the level.
pickGift ==
  /\ pc = "hud" /\ probe.left > 0 /\ score + 100 <= MaxScore
  /\ scored(100)
  /\ probe' = [probe EXCEPT !.left = @ - 1, !.best = Max(@, score + 100)]
  /\ pc' = IF probe.left = 1 THEN "hudClear" ELSE "hud"
  /\ HudQuiet

\* The level check with no gift left: the bonus of 1000 and a new level.
clearBonus ==
  /\ pc = "hudClear" /\ score + 1000 <= MaxScore
  /\ scored(1000)
  /\ \E n \in LevelSizes : probe' = [probe EXCEPT !.left = n, !.best = Max(@, score + 1000)]
  /\ pc' = "hud"
  /\ HudQuiet

\* handleRestart of App and the reset() it triggers: score 0, reported, and a
\* new level.
restartHud ==
  /\ pc = "hud"
  /\ \E S \in {onScoreUpdate([handleRestart(This) EXCEPT !.score = 0], 0)} :
       /\ score' = S.score /\ hudScore' = S.hudScore /\ highScore' = S.highScore
       /\ calls' = S.calls
  /\ \E n \in LevelSizes : probe' = [probe EXCEPT !.left = n]
  /\ pc' = "hud"
  /\ HudQuiet

NextHud == pickGift \/ clearBonus \/ restartHud

SpecHud == InitHud /\ [][NextHud]_vars

(***************************************************************************)
(* Properties.                                                             *)
(***************************************************************************)
ThePlayer == Entity(This, player)

\* C1: between two resets onGameOver is invoked exactly once when lives reaches
\* 0 and never more than once, also when several enemies overlap the player in
\* the same step.
C1_GameOverOnce ==
  /\ gameOverCalls <= 1
  /\ lives <= 0 => gameOverCalls = 1
  /\ lives > 0 => gameOverCalls = 0

\* C2: once a player hit has brought lives to 0 or below, no frame callback runs
\* a simulation step until reset() is called.
C2_NoStepAfterGameOver ==
  [][(lives <= 0 /\ pc = "idle" /\ resets' = resets)
       => (frames' = frames /\ pc' = "idle"
           /\ UNCHANGED <<entities, player, score, lives, isRunning>>)]_vars

\* A frame callback has run after game over: it did not schedule the next one.
C2_CallbackAfterGameOver ==
  lives <= 0 /\ ~isRunning /\ pc = "idle" /\ pending = 0 /\ resets = 0

\* C3: from the report of game over until reset(), score, lives and the position
\* of every entity stay as they are, in the rest of the step that reported game
\* over and in every later step.
C3_FrozenAfterGameOver ==
  [][(hudGameOver /\ resets' = resets) => UNCHANGED <<entities, score, lives>>]_vars

\* The player's rectangle is at the respawn point (12 TILE_SIZE, 7 TILE_SIZE).
AtRespawn(p) ==
  p.rect.x = Fixed(12 * TILE_SIZE) /\ p.rect.y = Fixed(7 * TILE_SIZE)

Still(p) == p.velocity.x = 0 /\ p.velocity.y = 0

\* C4: a player hit with lives > 1 takes exactly one life, reports the new lives
\* through onLives, puts the player's rectangle at (12 TILE_SIZE, 7 TILE_SIZE)
\* with velocity (0, 0), leaves the score as it is and keeps the clock running.
C4_HitWithLivesLeft ==
  [][(lives' < lives /\ lives > 1)
       => /\ lives' = lives - 1
          /\ calls' = << <<"onLives", lives - 1>> >>
          /\ hudLives' = lives - 1
          /\ AtRespawn(ThePlayer') /\ Still(ThePlayer')
          /\ score' = score
          /\ isRunning' /\ ~hudGameOver']_vars

\* An enemy has just hit the player, who had lives left and was elsewhere.
C4_EnemyHit ==
  /\ pc \in {"entities", "levelCheck"} /\ loopIdx > 1
  /\ calls = << <<"onLives", lives>> >> /\ lives = stepStart.lives - 1 /\ lives >= 1
  /\ ~stepStart.fell
  /\ AtRespawn(ThePlayer)

\* C5: at the end of a step in which the player's movement ended below y = 0:
\* if lives was > 1 when the step started, lives is exactly one less and the
\* player is at (12 TILE_SIZE, 7 TILE_SIZE) with zero velocity; if lives was 1,
\* the game is over and the player's rectangle has not been repositioned.
C5_FallBelowWorld ==
  (pc = "idle" /\ stepStart.fell) =>
     IF stepStart.lives > 1
     THEN lives = stepStart.lives - 1 /\ AtRespawn(ThePlayer) /\ Still(ThePlayer)
     ELSE ~isRunning /\ hudGameOver /\ ThePlayer.rect.y < 0

\* C6: in the loop iteration of a Gift the player's rectangle overlaps, the score
\* rises by exactly 100, onScore is called with the new total and the gift leaves
\* the entity set; a Gift the player does not overlap changes nothing; a gift
\* that has left the entity set never returns, as ids are unique and never reused.
C6_GiftPickup ==
  [][/\ (pc = "entities" /\ Entity(This, loopEnts[loopIdx]).type = "GIFT") =>
          IF checkCollision(ThePlayer.rect, Entity(This, loopEnts[loopIdx]).rect)
          THEN /\ score' = score + 100
               /\ calls' = << <<"onScore", score + 100>> >>
               /\ hudScore' = score + 100
               /\ Len(entities') = Len(entities) - 1
               /\ \A k \in 1..Len(entities') : entities'[k].id # loopEnts[loopIdx]
          ELSE UNCHANGED <<score, entities>>
     /\ \A i, j \in 1..Len(entities) :
          entities[i].id <= entityIdCounter /\ (i # j => entities[i].id # entities[j].id)
     /\ \A k \in 1..Len(entities') :
          entities'[k].id > entityIdCounter \/ HasEntity(This, entities'[k].id)]_vars

\* A gift has just been picked up.
C6_PickedUp ==
  /\ pc \in {"entities", "levelCheck"}
  /\ calls = << <<"onScore", score>> >>
  /\ score = stepStart.score + 100
  /\ Len(Gifts(This)) = stepStart.gifts - 1

\* C7: at the end of a step that started with one Gift left and picked it up,
\* the score is exactly 1100 higher and the level has been regenerated: the
\* entity set is non-empty, all its entities are new, and it holds a player and
\* between 4 and 6 gifts.
C7_LastGift ==
  (pc = "idle" /\ stepStart.gifts = 1 /\ score # stepStart.score) =>
     /\ score = stepStart.score + 1100
     /\ hudScore = score
     /\ fresh
     /\ Len(entities) > 0
     /\ \A k \in 1..Len(entities) : entities[k].id > stepStart.idc
     /\ HasEntity(This, player) /\ ThePlayer.type = "PLAYER"
     /\ Len(Gifts(This)) \in 4..6

\* The last gift has been picked up and the next level is there.
C7_LevelCleared ==
  pc = "idle" /\ stepStart.gifts = 1 /\ score = stepStart.score + 1100 /\ fresh

\* The player as createEntity makes it on the cell of the '@' of the template.
AtSpawn(p) ==
  /\ Cell(CellOf(p).x, CellOf(p).y) = "@"
  /\ p.rect = createEntity(CellOf(p).x * TILE_SIZE, CellOf(p).y * TILE_SIZE,
                            "PLAYER", p.id).rect
  /\ Still(p)

C8_GiftCount ==
  fresh => Len(Gifts(This)) \in 4..6 /\ Len(Gifts(This)) = genTotal

\* A generated level of 6 gifts: the first pass placed 4, the second pass 2.
C8_SixGifts == fresh /\ genTotal = 6 /\ Len(Gifts(This)) = 6

\* C9: right after initLevel every Gift and every tree stands on a cell (x, y)
\* with y > 0 whose character is a space and whose cell below is '#', and no
\* tree stands on the cell of a gift.
C9_StandingSpots ==
  fresh =>
    \A i \in 1..Len(entities) :
       entities[i].type \in {"GIFT", "DECORATION"} =>
         /\ entities[i].rect.x = Fixed(CellOf(entities[i]).x * TILE_SIZE)
         /\ entities[i].rect.y = Fixed(CellOf(entities[i]).y * TILE_SIZE)
         /\ CellOf(entities[i]).y > 0
         /\ Cell(CellOf(entities[i]).x, CellOf(entities[i]).y) = " "
         /\ Cell(CellOf(entities[i]).x, CellOf(entities[i]).y - 1) = "#"
         /\ \A j \in 1..Len(entities) :
              (entities[i].type = "DECORATION" /\ entities[j].type = "GIFT")
                => CellOf(entities[i]) # CellOf(entities[j])

\* A generated level with a tree on the floor of a gift.
C9_TreeBesideGift ==
  /\ fresh
  /\ \E i, j \in 1..Len(entities) :
       /\ entities[i].type = "DECORATION"
       /\ entities[j].type = "GIFT"
       /\ entities[i].rect.y = entities[j].rect.y

\* C11: every simulation step gets a time step dt with 0 <= dt <= 0.1 s (100 ms),
\* the real time since the clock was last read capped at 0.1 s, also the first
\* step after a reset() that follows a game-over pause of any length.
C11_TimeStepCapped ==
  /\ dt >= 0 /\ dt <= 100
  /\ pc \in {"entities", "levelCheck"} =>
       dt = IF stepStart.elapsed < 100 THEN stepStart.elapsed ELSE 100

\* The step that reset() runs after a game-over pause of more than 0.1 s.
C11_StepAfterPause ==
  /\ pc \in {"entities", "levelCheck"} /\ stepStart.from = "resetLoop"
  /\ pending = 0 /\ stepStart.elapsed > 100 /\ dt = 100

\* The closed rectangles r1 and r2 meet, but only along an edge or at a corner.
Touching(r1, r2) ==
  /\ r1.x <= r2.x + r2.w /\ r2.x <= r1.x + r1.w
  /\ r1.y <= r2.y + r2.h /\ r2.y <= r1.y + r1.h
  /\ \/ r1.x + r1.w = r2.x \/ r2.x + r2.w = r1.x
     \/ r1.y + r1.h = r2.y \/ r2.y + r2.h = r1.y

\* C12: checkCollision gives the same answer with its arguments exchanged, for
\* all rectangles of positive width and height, and it is false for two
\* rectangles that touch only along an edge or at a corner.
C12_CheckCollision ==
  probe.op = "checkCollision" =>
    /\ probe.out = probe.swapped
    /\ Touching(probe.r1, probe.r2) => ~probe.out

\* Two rectangles that meet at one corner only, found not to collide.
C12_CornerTouch ==
  /\ probe.op = "checkCollision"
  /\ probe.r1.x + probe.r1.w = probe.r2.x /\ probe.r1.y + probe.r1.h = probe.r2.y
  /\ ~probe.out /\ ~probe.swapped

\* The rectangle overlaps none of the solids of the level.
Clear(rect) == \A k \in 1..Len(solids) : ~checkCollision(rect, solids[k])

\* C13: handleCollisions, on either axis, leaves the rectangle of an entity that
\* overlaps no solid as it is, and a second call right after a call that ended
\* with no overlap changes nothing.
C13_HandleCollisions ==
  probe.op = "handleCollisions" =>
    /\ Clear(probe.entity.rect) => probe.out.rect = probe.entity.rect
    /\ Clear(probe.out.rect) => probe.again = probe.out

\* A call that moved the entity out of a solid, and a second call after it.
C13_ResolvedOnce ==
  /\ probe.op = "handleCollisions"
  /\ ~Clear(probe.entity.rect) /\ probe.out.rect # probe.entity.rect
  /\ Clear(probe.out.rect) /\ probe.again = probe.out

\* C19: moveEntity applies and resolves the horizontal displacement before the
\* vertical one; when it returns, grounded is true exactly when the vertical
\* pass found an overlapping solid while the vertical velocity was negative;
\* a collision on the way up sets the vertical velocity to 0 and leaves
\* grounded false.
C19_MoveEntity ==
  probe.op = "moveEntity" =>
    /\ probe.out = handleCollisions(probe.lifted, "y")
    /\ probe.out.rect.x = probe.sided.rect.x
    /\ probe.out.velocity.x = probe.sided.velocity.x
    /\ probe.out.grounded <=> (probe.lifted.velocity.y < 0 /\ ~Clear(probe.lifted.rect))
    /\ (probe.lifted.velocity.y > 0 /\ ~Clear(probe.lifted.rect)) =>
         (probe.out.velocity.y = 0 /\ ~probe.out.grounded)

\* An entity that moved sideways over a floor and landed on it in one move,
\* grounded, though it was not grounded before and no floor was under it.
C19_LandedAfterSidestep ==
  /\ probe.op = "moveEntity"
  /\ probe.sided.rect.x # probe.entity.rect.x /\ probe.sided.velocity.x # 0
  /\ ~probe.entity.grounded /\ probe.out.grounded /\ probe.out.velocity.y = 0
  /\ Clear([probe.entity.rect EXCEPT !.y = probe.out.rect.y - 1])

\* The indices of the PLAYER entities of the entity array.
Players == {k \in 1..Len(entities) : entities[k].type = "PLAYER"}

\* C14: once the engine is constructed, after any sequence of steps, pickups,
\* hits, regenerations and resets, the entities hold exactly one PLAYER entity,
\* and this.player is that entity.
C14_OnePlayer ==
  pc # "new" =>
    /\ Cardinality(Players) = 1
    /\ \A k \in Players : entities[k].id = player

\* A level regenerated after play: the player is a new entity and the only one.
C14_PlayerReplaced ==
  /\ pc = "idle" /\ fresh /\ frames > 0
  /\ player # stepStart.player
  /\ Cardinality(Players) = 1 /\ entities[CHOOSE k \in Players : TRUE].id = player

\* C15: in every reachable state the direction of the player and of every enemy
\* is -1 or +1, also after a chase step in which the enemy's x equals the
\* player's x.
C15_Directions ==
  \A k \in 1..Len(entities) :
     (entities[k].type = "PLAYER" \/ IsEnemyType(entities[k].type)) =>
        entities[k].direction \in {-1, 1}

\* The values the callback named name delivered during the last action, in order.
Delivered(name) ==
  SelectSeq(calls, LAMBDA c : c[1] = name)

\* A change of score or of lives in this action comes with one call of the
\* callback, which carries the new value.
ReportsChanges ==
  /\ score' # score =>
       (Len(Delivered("onScore")') = 1 /\ Delivered("onScore")'[1][2] = score')
  /\ lives' # lives =>
       (Len(Delivered("onLives")') = 1 /\ Delivered("onLives")'[1][2] = lives')

\* C16: at the end of every step and after every reset the score and the lives
\* the host shows, which are the values onScore and onLives delivered last (0
\* and 3 before any delivery), are the engine's score and lives; and every
\* change of the engine's score or lives is reported by one callback that
\* carries the new total.
C16_HudFollowsEngine ==
  /\ [](pc \in {"idle", "resetLoop"} => (hudScore = score /\ hudLives = lives))
  /\ [][ReportsChanges]_vars

\* The end of a step that took a life, after a score was made.
C16_LifeLostWithScore ==
  /\ pc = "idle" /\ frames > 0
  /\ lives < stepStart.lives /\ score > 0
  /\ hudLives = lives /\ hudScore = score

\* C17: after the regeneration of a level clear the player is an entity newly
\* created on the '@' cell of the template, column 9 of row 7, with the inset
\* of its hit box and at rest; lives is what it was, and score is what it was
\* plus the bonus of 1000.
C17_PlayerAfterClear ==
  [][(pc = "levelCheck" /\ entityIdCounter' # entityIdCounter)
       => /\ player' > entityIdCounter
          /\ ThePlayer'.type = "PLAYER"
          /\ ThePlayer'.rect = [x |-> Fixed(9 * TILE_SIZE + 2), y |-> Fixed(7 * TILE_SIZE),
                                w |-> Fixed(TILE_SIZE - 4), h |-> Fixed(TILE_SIZE)]
          /\ ThePlayer'.velocity = [x |-> 0, y |-> 0]
          /\ lives' = lives
          /\ score' = score + 1000]_vars

\* A level cleared by a player that was moving, away from the '@' cell.
C17_NewPlayerAtSpawn ==
  /\ pc = "idle" /\ fresh /\ frames > 0 /\ score >= 1000
  /\ player > stepStart.idc
  /\ ThePlayer.rect.x = Fixed(146) /\ ThePlayer.rect.y = Fixed(112) /\ Still(ThePlayer)

\* The player's rectangle and velocity are the same before and after the action.
PlayerLeftAlone ==
  ThePlayer'.rect = ThePlayer.rect /\ ThePlayer'.velocity = ThePlayer.velocity

\* C18, as stated: the regeneration of a level clear leaves the rectangle and
\* the velocity of the player as they are; outside the player's own movement,
\* only a player hit resets the player's position.
C18_PlayerPersists ==
  [][(pc \in {"entities", "levelCheck"}) => (PlayerLeftAlone \/ lives' < lives)]_vars

\* C18, amended: outside the player's own movement the rectangle and the
\* velocity of the player change only by a player hit that leaves a life,
\* which puts the player at the respawn point at rest, and by the regeneration
\* of a level clear or of reset(), which puts a new player on the '@' cell at
\* rest.
C18_PlayerReset ==
  [][(pc \in {"entities", "levelCheck", "idle"} /\ frames' = frames)
       => \/ PlayerLeftAlone
          \/ lives' < lives /\ lives' > 0 /\ AtRespawn(ThePlayer') /\ Still(ThePlayer')
          \/ entityIdCounter' # entityIdCounter /\ pc # "entities"
               /\ AtSpawn(ThePlayer') /\ player' > entityIdCounter]_vars

\* A level clear in a step without a hit: the player is on the '@' cell, not
\* where the last gift was.
C18_MovedByClear ==
  /\ pc = "idle" /\ fresh /\ stepStart.gifts = 1 /\ lives = stepStart.lives
  /\ AtSpawn(ThePlayer) /\ player # stepStart.player
  /\ \A k \in 1..Len(entities) :
        entities[k].type = "GIFT" => ~checkCollision(ThePlayer.rect, entities[k].rect)

\* The entity has left the world on the left or on the right.
OutOfWorld(e) == e.rect.x < 0 \/ e.rect.x + e.rect.w > Fixed(WORLD_WIDTH * TILE_SIZE)

\* The player as the movement of this update leaves it, before constrainToWorld.
PlayerMoved ==
  moveEntity(face(steer(ThePlayer, checkOverlap(ThePlayer.rect, ladders),
                        stepStart'.input, dt'),
                  stepStart'.input),
             dt')

\* The enemy of this iteration as its movement leaves it, before constrainToWorld.
EnemyMoved == moveEntity(aim(Entity(This, loopEnts[loopIdx]), ThePlayer, dt), dt)

\* The entity id as the action leaves it.
After(id) == entities'[CHOOSE k \in 1..Len(entities') : entities'[k].id = id]

\* An entity that its movement took out of the world has no horizontal velocity
\* after the action, and an enemy that it took below y = 0 is at the top.
ClampStops ==
  /\ (frames' # frames /\ OutOfWorld(PlayerMoved)) => After(player).velocity.x = 0
  /\ (pc = "entities" /\ IsEnemyType(Entity(This, loopEnts[loopIdx]).type)) =>
       /\ OutOfWorld(EnemyMoved) => After(loopEnts[loopIdx]).velocity.x = 0
       /\ EnemyMoved.rect.y < 0 =>
            After(loopEnts[loopIdx]).rect.y = Fixed(WORLD_HEIGHT * TILE_SIZE)

\* C20: at the end of every step the rectangle of the player and of every enemy
\* has 0 <= x <= WORLD_WIDTH * TILE_SIZE - w, every enemy has y >= 0 (one that
\* went below 0 was moved to y = WORLD_HEIGHT * TILE_SIZE in that step), and
\* the horizontal velocity of an entity the clamp moved is 0.
C20_InsideTheWorld ==
  /\ [](pc = "idle" =>
          \A k \in 1..Len(entities) :
             (entities[k].type = "PLAYER" \/ IsEnemyType(entities[k].type)) =>
                /\ entities[k].rect.x >= 0
                /\ entities[k].rect.x <= Fixed(WORLD_WIDTH * TILE_SIZE) - entities[k].rect.w
                /\ IsEnemyType(entities[k].type) => entities[k].rect.y >= 0)
  /\ [][ClampStops]_vars

\* The end of a step in which an enemy walked off the right end of its floor
\* and out of the world, and fell below it: it is at the right edge, at the
\* top, with no horizontal velocity.
C20_ClampedAndWrapped ==
  /\ pc = "idle" /\ frames > 0
  /\ \E k \in 1..Len(entities) :
        /\ IsEnemyType(entities[k].type)
        /\ entities[k].rect.x = Fixed(WORLD_WIDTH * TILE_SIZE) - entities[k].rect.w
        /\ entities[k].rect.y = Fixed(WORLD_HEIGHT * TILE_SIZE)
        /\ entities[k].velocity.x = 0

\* The enemy that the coming iteration of the entity loop is for.
Current == Entity(This, loopEnts[loopIdx])

\* An iteration for an enemy is about to run.
EnemyTurn == pc = "entities" /\ IsEnemyType(Current.type)

\* The player is within a tile of the enemy's height and within 8 tiles of its x.
InSight ==
  /\ Abs(Current.rect.y - ThePlayer.rect.y) < Fixed(TILE_SIZE)
  /\ Abs(ThePlayer.rect.x - Current.rect.x) < Fixed(8 * TILE_SIZE)

\* C21: for every enemy in every step, with the distances taken when the enemy
\* is processed: if the player is in sight (dy < TILE_SIZE and |dx| <
\* 8 * TILE_SIZE) the enemy's horizontal velocity before its movement is
\* ENEMY_SPEED * 1.2 towards the player and its direction points at the player;
\* otherwise the velocity is ENEMY_SPEED in its current direction.
C21_ChaseOrPatrol ==
  EnemyTurn =>
    IF InSight
    THEN \/ /\ ThePlayer.rect.x >= Current.rect.x
            /\ aim(Current, ThePlayer, dt).direction = 1
            /\ aim(Current, ThePlayer, dt).velocity.x = (ENEMY_SPEED * 12) \div 10
         \/ /\ ThePlayer.rect.x <= Current.rect.x
            /\ aim(Current, ThePlayer, dt).direction = -1
            /\ aim(Current, ThePlayer, dt).velocity.x = -((ENEMY_SPEED * 12) \div 10)
    ELSE /\ aim(Current, ThePlayer, dt).direction = Current.direction
         /\ Current.direction \in {-1, 1}
         /\ aim(Current, ThePlayer, dt).velocity.x = Current.direction * ENEMY_SPEED

\* The enemy of the coming iteration with the direction and the velocity it
\* moves with.
Aimed == aim(Current, ThePlayer, dt)

\* The horizontal pass of the enemy's movement finds it overlapping a solid.
HitsWall == ~Clear(moveX(Aimed, dt).rect)

\* C22, as stated: an enemy's direction is reversed at the end of its step
\* exactly when a horizontal collision with a solid zeroed its horizontal
\* velocity in that step; without such a collision it is not reversed.
C22_TurnsAtWallsOnly ==
  [][EnemyTurn =>
       After(loopEnts[loopIdx]).direction =
         (IF HitsWall THEN -Aimed.direction ELSE Aimed.direction)]_vars

\* C22, amended: an enemy's direction is multiplied by -1 at the end of its
\* step exactly when its horizontal velocity is 0 then: a solid stopped it in
\* the horizontal pass, the clamp at the left or right edge of the world
\* stopped it, or it chased a player with the same x as its own (or has
\* direction 0) and had no horizontal velocity to begin with.
C22_TurnsWhenStopped ==
  [][EnemyTurn =>
       /\ After(loopEnts[loopIdx]).velocity.x = 0
            <=> (HitsWall \/ OutOfWorld(EnemyMoved) \/ Aimed.velocity.x = 0)
       /\ After(loopEnts[loopIdx]).direction =
            (IF After(loopEnts[loopIdx]).velocity.x = 0
             THEN -Aimed.direction ELSE Aimed.direction)]_vars

\* The end of a step in which the clamp at the right edge of the world stopped
\* an enemy that no solid was in the way of: it faces left.
C22_TurnedAtWorldEdge ==
  /\ pc = "idle" /\ frames > 0
  /\ \E k \in 1..Len(entities) :
        /\ IsEnemyType(entities[k].type)
        /\ entities[k].rect.x = Fixed(WORLD_WIDTH * TILE_SIZE) - entities[k].rect.w
        /\ entities[k].velocity.x = 0 /\ entities[k].direction = -1
        /\ Clear([entities[k].rect EXCEPT !.x = @ + Fixed(1), !.y = @ + Fixed(8)])

\* The centre of the player's rectangle is strictly inside a ladder zone.
OnLadderZone == \E k \in 1..Len(ladders) : HoldsCentre(ladders[k], ThePlayer.rect)

\* The player as update() steers it in this step, before its movement.
Steered ==
  steer(ThePlayer, checkOverlap(ThePlayer.rect, ladders), stepStart'.input, dt')

\* C23: in every step that starts with the centre of the player's rectangle
\* strictly inside a ladder zone, the player's velocity is set to
\* (axis.x * MOVE_SPEED * 0.8, axis.y * CLIMB_SPEED), with no gravity and no
\* jump, and the player's grounded flag is true at the end of the step.
C23_OnTheLadder ==
  [][(frames' # frames /\ OnLadderZone) =>
       /\ Steered.velocity.x = (stepStart'.input.x * MOVE_SPEED * 8) \div 10
       /\ Steered.velocity.y = stepStart'.input.y * CLIMB_SPEED
       /\ After(player).grounded]_vars

\* The player of this step as the vertical pass of its movement finds it.
PlayerLifted ==
  moveY(handleCollisions(moveX(face(Steered, stepStart'.input), dt'), "x"), dt')

\* The step starts a jump exactly when the player is off the ladders, jump is
\* pressed and grounded is true; it leaves grounded true only when the player
\* came down on a solid in it, and never when it started a jump.
JumpsFromTheGround ==
  frames' # frames =>
    /\ Steered.velocity.y = JUMP_FORCE
         <=> (~OnLadderZone /\ stepStart'.input.jump /\ ThePlayer.grounded)
    /\ After(player).grounded =>
         \E lifted \in {PlayerLifted} : lifted.velocity.y < 0 /\ ~Clear(lifted.rect)
    /\ Steered.velocity.y = JUMP_FORCE => ~After(player).grounded

\* Outside the player's step nothing sets the grounded flag of the player.
GroundedOnlyByLanding ==
  frames' = frames => (After(player').grounded => (player' = player /\ ThePlayer.grounded))

\* C24: the player's vertical velocity is set to JUMP_FORCE in a step if and
\* only if the player is not on a ladder, jump is pressed and the grounded flag
\* the previous step left is true; grounded becomes true only by coming down
\* on a solid, so the player never starts a second jump without a landing on
\* a solid in between.
C24_Jump ==
  [][JumpsFromTheGround /\ GroundedOnlyByLanding]_vars

\* The end of a step with jump pressed that the player started in the air,
\* rising from the jump of the step before: it has reached the floor above
\* from below, and no second jump has started.
C24_NoSecondJump ==
  /\ pc = "idle" /\ frames = 2 /\ lives = stepStart.lives
  /\ stepStart.input.jump /\ ~stepStart.grounded
  /\ ~ThePlayer.onLadder /\ ~ThePlayer.grounded
  /\ ThePlayer.velocity.y = 0
  /\ ~Clear([ThePlayer.rect EXCEPT !.y = @ + 1])
  /\ Clear([ThePlayer.rect EXCEPT !.y = @ - 1])

\* The number of gifts in the level.
GiftCount == Len(Gifts(This))

\* The end of update() gives the bonus and regenerates exactly when no gift is
\* left, and the new level has at least 4 gifts; before it and between updates
\* the gifts only go, each for 100 points; reset() sets the score to 0.
ScoreSteps ==
  /\ pc = "levelCheck" =>
       IF GiftCount = 0
       THEN /\ score' = score + 1000
            /\ \A k \in 1..Len(entities') : entities'[k].id > entityIdCounter
            /\ GiftCount' >= 4
       ELSE score' = score /\ entities' = entities
  /\ (pc # "levelCheck" /\ resets' = resets) =>
       /\ GiftCount' <= GiftCount
       /\ score' = score + 100 * (GiftCount - GiftCount')
  /\ resets' # resets => score' = 0

\* C25: the bonus of 1000 and the regeneration happen in a step if and only if
\* no Gift is left after the entity loop of that step.  A regenerated level
\* has at least 4 gifts and gifts go only by pickups of 100 points each, so two
\* bonuses are at least 4 pickups apart, and since the last reset the score is
\* 100 * (gifts picked up) + 1000 * (levels cleared) and never decreases.
C25_BonusOnClear ==
  [][ScoreSteps]_vars

\* The end of a step that picked up the last gift: 1100 points more, and a new
\* level with at least 4 gifts.
C25_ClearedAndRefilled ==
  /\ pc = "idle" /\ frames > 0 /\ resets = 0
  /\ stepStart.gifts = 1 /\ score = stepStart.score + 1100
  /\ GiftCount >= 4 /\ player > stepStart.idc

\* The rows of the template that have a standing spot.
StandingRows ==
  {y \in 1..(WORLD_HEIGHT - 1) :
     \E x \in 0..(WORLD_WIDTH - 1) : StandingSpot(mapTemplate, x, y)}

\* The highest of them.
TopRow == CHOOSE y \in StandingRows : \A z \in StandingRows : z <= y

\* C26: for every outcome of the random choices of initLevel, no Gift is placed
\* on the highest floor level, the row of standing spots with the greatest y,
\* neither by the first placement pass nor by the fill-up pass.
C26_NoGiftOnTopFloor ==
  fresh =>
    \A i \in 1..Len(entities) :
       entities[i].type = "GIFT" => CellOf(entities[i]).y < TopRow

\* A level of 6 gifts, 4 of the first pass and 2 of the fill-up pass: two gifts
\* share a floor level, one gift is on the highest floor level but one, and the
\* highest floor level has none.
C26_GiftsBelowTopFloor ==
  /\ fresh /\ genTotal = 6 /\ GiftCount = 6
  /\ \E i, j \in 1..Len(entities) :
        /\ i # j /\ entities[i].type = "GIFT" /\ entities[j].type = "GIFT"
        /\ CellOf(entities[i]).y = CellOf(entities[j]).y
  /\ \E i \in 1..Len(entities) :
        /\ entities[i].type = "GIFT" /\ CellOf(entities[i]).y < TopRow
        /\ \A z \in StandingRows : z > CellOf(entities[i]).y => z = TopRow
  /\ \A i \in 1..Len(entities) : entities[i].type = "GIFT" => CellOf(entities[i]).y # TopRow

\* Two rectangles with a common interior point.
Overlaps(r1, r2) ==
  /\ r1.x < r2.x + r2.w /\ r2.x < r1.x + r1.w
  /\ r1.y < r2.y + r2.h /\ r2.y < r1.y + r1.h

\* The iteration of the entity loop for an enemy takes one life, and reports it
\* once, when the enemy as it has moved overlaps the player; it takes none
\* otherwise.
EachContactHits ==
  EnemyTurn =>
    IF Overlaps(ThePlayer.rect, After(Current.id).rect)
    THEN lives' = lives - 1 /\ Len(Delivered("onLives")') = 1
    ELSE lives' = lives /\ Len(Delivered("onLives")') = 0

\* C27: there is no damage cooldown: in every step, each enemy whose rectangle
\* overlaps the player's when its contact is checked triggers one player-hit
\* event, whatever hits the step or the steps before it had already.
C27_NoDamageCooldown == [][EachContactHits]_vars

\* An entity loop that has taken a life when the step had taken one already.
C27_SecondHitOfTheStep ==
  /\ pc \in {"entities", "levelCheck"}
  /\ lives = stepStart.lives - 2
  /\ hudLives = lives

\* C28: in every reachable state 0 <= lives <= 3: lives is never negative,
\* whatever the number of enemy contacts and falls within one step.
C28_LivesInRange == lives >= 0 /\ lives <= 3

\* A simulation step, the update() of a frame callback, of start() or of
\* reset(), starts with at least one life.
StepStartsAlive == frames' # frames => lives >= 1

\* C29: whenever a simulation step starts, lives >= 1: at a frame boundary the
\* clock runs only if lives > 0, and once started it is stopped only when
\* lives <= 0.
C29_StepsStartAlive ==
  /\ []((pc \in {"idle", "resetLoop"} /\ isRunning) => lives > 0)
  /\ []((pc \notin {"new", "start"} /\ ~isRunning) => lives <= 0)
  /\ [][StepStartsAlive]_vars

\* The end of a step that started with one life and stopped the clock.
C29_LastLifeLost ==
  /\ pc = "idle" /\ frames > 0
  /\ stepStart.lives = 1 /\ lives <= 0 /\ ~isRunning

\* C30: for every interleaving of reset() with the pending frame callbacks, at
\* most one chain of frame callbacks is live: there are never two scheduled
\* loop callbacks, so that there is at most one simulation step per host frame,
\* also when reset() is called while the game runs or before the frame that the
\* game-over step scheduled has fired.
C30_OneFrameChain == pending <= 1

\* C31: the high score of the HUD never decreases: for any sequence of onScore
\* callbacks and restarts, delivered through the handler that GameCanvas
\* captured when the engine was constructed, the high score after each callback
\* is at least its previous value and at least every score reported so far.
C31_HighScoreNeverDecreases ==
  /\ [](highScore >= probe.best)
  /\ [][highScore' >= highScore]_vars

\* The indices of the gifts in the array of entities.
GiftIndices == {i \in 1..Len(entities) : entities[i].type = "GIFT"}

\* C32: for every outcome of the random choices of initLevel on the template,
\* no two Gifts are created on the same cell, and every reachable floor level,
\* that is every row of standing spots but the highest, receives at least one
\* Gift.
C32_GiftsSpreadOut ==
  fresh =>
    /\ \A i, j \in GiftIndices : i # j => CellOf(entities[i]) # CellOf(entities[j])
    /\ \A y \in StandingRows \ {TopRow} :
          \E i \in GiftIndices : CellOf(entities[i]).y = y

\* A level of 5 gifts: the gift of the fill-up pass shares its floor level, and
\* not its cell, with a gift of the first pass.
C32_TwoGiftsOnOneFloor ==
  /\ fresh /\ genTotal = 5 /\ Cardinality(GiftIndices) = 5
  /\ \E i, j \in GiftIndices :
        /\ i < j
        /\ CellOf(entities[i]).y = CellOf(entities[j]).y
        /\ CellOf(entities[i]).x # CellOf(entities[j]).x

\* The solids that the rectangle strictly overlaps.
SolidsUnder(rect) == {k \in 1..Len(solids) : Overlaps(rect, solids[k])}

\* C33: at the end of every step, after any sequence of movement, ladder
\* alignment nudges, respawns, teleports to the top of the world and
\* regenerations, the rectangle of the player and of every enemy strictly
\* overlaps no solid.
C33_NobodyInsideASolid ==
  (pc = "idle" /\ frames > 0) =>
    \A k \in 1..Len(entities) :
       (entities[k].type = "PLAYER" \/ IsEnemyType(entities[k].type)) =>
          SolidsUnder(entities[k].rect) = {}

\* The end of a step that cost a life and put the player back at the respawn
\* point: the player and an enemy stand on solids, edge to edge.
C33_RespawnedOnTheFloor ==
  /\ pc = "idle" /\ frames > 0
  /\ lives < stepStart.lives /\ lives > 0
  /\ \E k \in 1..Len(solids) : Touching(ThePlayer.rect, solids[k])
  /\ SolidsUnder(ThePlayer.rect) = {}
  /\ \E i \in 1..Len(entities) :
        /\ IsEnemyType(entities[i].type)
        /\ \E k \in 1..Len(solids) : Touching(entities[i].rect, solids[k])

====
